---- MODULE Spec2Model ----
(***************************************************************************)
(* Model of scrap_table.py: the numeric coercion (to_decimal_safe), the    *)
(* field normalizer inside fetch_latest_sismos, clean_item_for_dynamo and  *)
(* the replace-snapshot handler lambda_handler running against a DynamoDB  *)
(* table.                                                                  *)
(*                                                                         *)
(* Python values are records [t |-> tag, v |-> text]: t is the Python type *)
(* ("none", "bool", "int", "float", "str", "dec" for decimal.Decimal,      *)
(* "other" for a list or a dict) and v is the value's str() as a sequence  *)
(* of one-character strings, so that the string handling of the code is    *)
(* computed and not assumed.                                               *)
(***************************************************************************)
EXTENDS Integers, Sequences, FiniteSets, TLC

\* ------------------------------------------------------------------ bounds

\* Longest batch the upstream returns in the model (the sample cap of the
\* handler is 5, so 6 makes the cap bite).
MaxBatch == 6
\* Invocations of lambda_handler made one after the other.
MaxRuns == 1
\* Most items an earlier invocation left in the table before the first one
\* of the model starts.
MaxOld == 2
\* Items that fit one page of a scan (DynamoDB ends a page at 1 MB): smaller
\* than MaxOld, so that a cleanup scan can miss items.
PageItems == 1
\* Longest batch of an invocation when two invocations overlap.
MaxConcBatch == 1

\* ------------------------------------------------------------ Python values

None == [t |-> "none", v |-> <<>>]
PyTrue == [t |-> "bool", v |-> <<"T", "r", "u", "e">>]
PyFalse == [t |-> "bool", v |-> <<"F", "a", "l", "s", "e">>]
PyInt(digits) == [t |-> "int", v |-> digits]
PyFloat(repr) == [t |-> "float", v |-> repr]
PyStr(chars) == [t |-> "str", v |-> chars]
\* A dict whose keys the model reads: v is the function from its keys.
PyDict(f) == [t |-> "dict", v |-> f]
EmptyDict == [k \in {} |-> [t |-> "none", v |-> <<>>]]
PyDecimal(text) == [t |-> "dec", v |-> text]
\* A list or a dict of the upstream JSON, carried by its str().
PyOther(repr) == [t |-> "other", v |-> repr]

Digits == <<"0", "1", "2", "3", "4", "5", "6", "7", "8", "9">>
IsDigit(c) == c \in {Digits[i] : i \in 1..10}
DigitVal(c) == CHOOSE i \in 0..9 : Digits[i + 1] = c

\* The zero-width space U+200B, one character of a Python string.
ZWSP == "u200b"

AllZero(s) == \A i \in 1..Len(s) : s[i] \in {"0", ".", "-", "+"}

\* The digits of a Decimal's text, before its exponent.
RECURSIVE BeforeExponent(_)
BeforeExponent(s) ==
    IF Len(s) = 0 \/ s[1] = "E" THEN <<>> ELSE <<s[1]>> \o BeforeExponent(Tail(s))

\* Python truthiness, as the `or` chains of the normalizer test it.
Truthy(x) ==
    CASE x.t = "none" -> FALSE
      [] x.t = "bool" -> x = PyTrue
      [] x.t = "int" -> ~AllZero(x.v)
      [] x.t = "float" -> ~AllZero(x.v)
      [] x.t = "dec" -> ~AllZero(BeforeExponent(x.v))
      [] x.t = "other" -> x.v \notin {<<"[", "]">>, <<"{", "}">>}
      [] x.t = "dict" -> DOMAIN x.v # {}
      [] OTHER -> Len(x.v) > 0

\* a or b or c ...: the first truthy operand, else the last operand.
RECURSIVE OrChain(_)
OrChain(xs) ==
    IF Len(xs) = 1 THEN xs[1]
    ELSE IF Truthy(xs[1]) THEN xs[1]
    ELSE OrChain(Tail(xs))

\* dict.get(k): the value, or None when the key is missing.
Get(d, k) == IF k \in DOMAIN d THEN d[k] ELSE None

\* ------------------------------------------------------------ str methods

\* The characters str.isspace() holds of: the ASCII blanks and controls, and
\* the Unicode spaces (those from U+2000 on written like ZWSP, by code point).
Whitespace ==
    {" ", "\t", "\n", "\r", "", "", "", "", "", "", "", " ", " ",
     "u2000", "u2001", "u2002", "u2003", "u2004", "u2005", "u2006", "u2007",
     "u2008", "u2009", "u200a", "u2028", "u2029", "u202f", "u205f", "u3000"}

RECURSIVE LStrip(_)
LStrip(s) == IF Len(s) > 0 /\ s[1] \in Whitespace THEN LStrip(Tail(s)) ELSE s

RECURSIVE RStrip(_)
RStrip(s) ==
    IF Len(s) > 0 /\ s[Len(s)] \in Whitespace THEN RStrip(SubSeq(s, 1, Len(s) - 1)) ELSE s

\* str.strip()
Strip(s) == RStrip(LStrip(s))

StartsWith(s, pat) == Len(s) >= Len(pat) /\ SubSeq(s, 1, Len(pat)) = pat

\* str.replace(pat, rep): every non-overlapping occurrence, left to right.
RECURSIVE Replace(_, _, _)
Replace(s, pat, rep) ==
    IF Len(s) = 0 THEN s
    ELSE IF StartsWith(s, pat)
         THEN rep \o Replace(SubSeq(s, Len(pat) + 1, Len(s)), pat, rep)
         ELSE <<s[1]>> \o Replace(Tail(s), pat, rep)

\* ------------------------------------------------- naturals of any size

\* A natural number as the sequence of its decimal digits (0..9), the most
\* significant first and no leading zero: <<>> is zero.  Python's int and
\* the exponent of a Decimal are not bounded by a machine word.
BigNorm(a) ==
    IF \A i \in 1..Len(a) : a[i] = 0 THEN <<>>
    ELSE SubSeq(a, CHOOSE i \in 1..Len(a) : a[i] # 0 /\ \A j \in 1..(i - 1) : a[j] = 0,
                Len(a))

Last(s) == s[Len(s)]

RECURSIVE BigOfNat(_)
BigOfNat(n) == IF n = 0 THEN <<>> ELSE BigOfNat(n \div 10) \o <<n % 10>>

RECURSIVE BigToNat(_)
BigToNat(a) == IF Len(a) = 0 THEN 0 ELSE 10 * BigToNat(SubSeq(a, 1, Len(a) - 1)) + Last(a)

BigOfDigits(chars) == BigNorm([i \in 1..Len(chars) |-> DigitVal(chars[i])])

BigToDigits(a) == IF Len(a) = 0 THEN <<"0">> ELSE [i \in 1..Len(a) |-> Digits[a[i] + 1]]

\* -1, 0 or 1 as a is below, equal to or above b.
BigCmp(a, b) ==
    IF Len(a) # Len(b) THEN (IF Len(a) < Len(b) THEN -1 ELSE 1)
    ELSE IF \A k \in 1..Len(a) : a[k] = b[k] THEN 0
    ELSE LET i == CHOOSE k \in 1..Len(a) : a[k] # b[k] /\ \A j \in 1..(k - 1) : a[j] = b[j]
         IN  IF a[i] < b[i] THEN -1 ELSE 1

\* The digit of a at place i of n places, a written with leading zeros.
DigitAt(a, i, n) == IF i > n - Len(a) THEN a[i - (n - Len(a))] ELSE 0

\* a + b: place p takes a carry when a place to its right overflows and
\* every place between the two holds a 9.
BigAdd(a, b) ==
    LET n == IF Len(a) > Len(b) THEN Len(a) ELSE Len(b)
        sum(p) == IF p = 0 THEN 0 ELSE DigitAt(a, p, n) + DigitAt(b, p, n)
        carry(p) == \E j \in (p + 1)..n :
                        sum(j) >= 10 /\ \A k \in (p + 1)..(j - 1) : sum(k) = 9
    IN  IF Len(a) = 0 THEN b
        ELSE IF Len(b) = 0 THEN a
        ELSE BigNorm([i \in 1..(n + 1) |->
                         (sum(i - 1) + (IF carry(i - 1) THEN 1 ELSE 0)) % 10])

\* a - b, for a >= b: place p lends when a place to its right falls short
\* and every place between the two is level.
BigSub(a, b) ==
    LET n == Len(a)
        borrow(p) == \E j \in (p + 1)..n :
                         /\ a[j] < DigitAt(b, j, n)
                         /\ \A k \in (p + 1)..(j - 1) : a[k] = DigitAt(b, k, n)
    IN  IF Len(b) = 0 THEN a
        ELSE BigNorm([i \in 1..n |->
                         (a[i] - DigitAt(b, i, n) - (IF borrow(i) THEN 1 ELSE 0) + 10) % 10])

\* 2 * a: a place takes a carry when the place to its right holds 5 or more.
BigDouble(a) ==
    LET n == Len(a)
    IN  IF n = 0 THEN a
        ELSE BigNorm([i \in 1..(n + 1) |->
                         ((IF i = 1 THEN 0 ELSE 2 * a[i - 1])
                          + (IF i <= n /\ a[i] >= 5 THEN 1 ELSE 0)) % 10])

MulPow10(a, n) == IF Len(a) = 0 THEN a ELSE a \o [i \in 1..n |-> 0]

\* c * a for c in 0..10, by halving c.
RECURSIVE BigMulDigit(_, _)
BigMulDigit(a, c) ==
    IF c = 0 \/ Len(a) = 0 THEN <<>>
    ELSE IF c = 1 THEN a
    ELSE IF c % 2 = 0 THEN BigDouble(BigMulDigit(a, c \div 2))
    ELSE BigAdd(BigMulDigit(a, c - 1), a)

\* a * b, b taken digit by digit.
RECURSIVE MulFold(_, _, _, _)
MulFold(a, b, i, acc) ==
    IF i > Len(b) THEN acc
    ELSE MulFold(a, b, i + 1, BigAdd(MulPow10(acc, 1), BigMulDigit(a, b[i])))

\* a * 2^n, ten powers at a time.
RECURSIVE MulPow2(_, _)
MulPow2(a, n) ==
    IF Len(a) = 0 THEN a
    ELSE IF n >= 10 THEN MulPow2(MulFold(a, <<1, 0, 2, 4>>, 1, <<>>), n - 10)
    ELSE IF n > 0 THEN MulPow2(BigDouble(a), n - 1)
    ELSE a

\* The multiples 0 * d .. 10 * d, each the one before plus d.
RECURSIVE Multiples(_, _)
Multiples(d, acc) ==
    IF Len(acc) = 11 THEN acc ELSE Multiples(d, Append(acc, BigAdd(Last(acc), d)))

\* Long division: mult[c + 1] is c * d, r the remainder so far and q the
\* quotient digits so far; digit i of n comes down next, giving cur and
\* the quotient digit c, the one with c * d <= cur < (c + 1) * d.
RECURSIVE LongDivide(_, _, _, _, _)
RECURSIVE DivideDigit(_, _, _, _, _)
LongDivide(n, mult, i, r, q) ==
    IF i > Len(n) THEN [q |-> BigNorm(q), r |-> r]
    ELSE DivideDigit(n, mult, i, BigNorm(r \o <<n[i]>>), q)

DivideDigit(n, mult, i, cur, q) ==
    LET c == CHOOSE k \in 0..9 :
                 BigCmp(mult[k + 1], cur) <= 0 /\ BigCmp(mult[k + 2], cur) > 0
    IN  LongDivide(n, mult, i + 1, BigSub(cur, mult[c + 1]), q \o <<c>>)

\* Quotient q and remainder r of n by d, d > 0.
BigDivMod(n, d) ==
    LET head == IF Len(d) - 1 < Len(n) THEN Len(d) - 1 ELSE Len(n)
    IN  LongDivide(n, Multiples(d, <<<<>>>>), head + 1, SubSeq(n, 1, head), <<>>)

\* An integer of any size: a sign and a magnitude (zero is not negative).
Signed(neg, mag) == [neg |-> neg /\ Len(mag) > 0, mag |-> mag]

SignedAdd(x, y) ==
    IF x.neg = y.neg THEN Signed(x.neg, BigAdd(x.mag, y.mag))
    ELSE IF BigCmp(x.mag, y.mag) >= 0 THEN Signed(x.neg, BigSub(x.mag, y.mag))
    ELSE Signed(y.neg, BigSub(y.mag, x.mag))

SignedOfInt(n) == IF n < 0 THEN Signed(TRUE, BigOfNat(-n)) ELSE Signed(FALSE, BigOfNat(n))

\* ------------------------------------------------------- decimal.Decimal(s)

AllDigits(s) == \A i \in 1..Len(s) : IsDigit(s[i])

Unsigned(s) == IF Len(s) > 0 /\ s[1] \in {"+", "-"} THEN Tail(s) ELSE s

IsNegative(s) == Len(s) > 0 /\ s[1] = "-"

PointAt(s) == IF \E i \in 1..Len(s) : s[i] = "."
              THEN CHOOSE i \in 1..Len(s) : s[i] = "." /\ \A j \in 1..(i - 1) : s[j] # "."
              ELSE 0

IntPart(s) == IF PointAt(s) = 0 THEN s ELSE SubSeq(s, 1, PointAt(s) - 1)
FracPart(s) == IF PointAt(s) = 0 THEN <<>> ELSE SubSeq(s, PointAt(s) + 1, Len(s))

\* The letters of the Decimal syntax are read in either case.
Lower(c) ==
    CASE c = "E" -> "e" [] c = "I" -> "i" [] c = "N" -> "n" [] c = "F" -> "f"
      [] c = "T" -> "t" [] c = "Y" -> "y" [] c = "A" -> "a" [] c = "S" -> "s"
      [] OTHER -> c

\* Where the exponent marker stands, 0 when there is none.
ExpAt(s) == IF \E i \in 1..Len(s) : Lower(s[i]) = "e"
            THEN CHOOSE i \in 1..Len(s) : Lower(s[i]) = "e" /\ \A j \in 1..(i - 1) : Lower(s[j]) # "e"
            ELSE 0

Mantissa(s) == IF ExpAt(s) = 0 THEN s ELSE SubSeq(s, 1, ExpAt(s) - 1)
ExpPart(s) == IF ExpAt(s) = 0 THEN <<"0">> ELSE SubSeq(s, ExpAt(s) + 1, Len(s))

RECURSIVE DropLeadingZeros(_)
DropLeadingZeros(s) ==
    IF Len(s) > 1 /\ s[1] = "0" THEN DropLeadingZeros(Tail(s)) ELSE s

\* The payload of a NaN: its digits without leading zeros, none for zero.
NanPayload(p) == IF BigOfDigits(p) = <<>> THEN <<>> ELSE DropLeadingZeros(p)

\* The exponent limits of the decimal module on a 64-bit build: the adjusted
\* exponent is at most Emax and the exponent at least Etiny.
DecimalEmax == BigOfDigits([i \in 1..18 |-> "9"])
DecimalEtiny == BigOfDigits(<<"1">> \o [i \in 1..17 |-> "9"] \o <<"7">>)

\* What Decimal(s) reads in s: blanks around it dropped, every underscore
\* dropped, then a sign and a number with an optional exponent, an infinity
\* or a NaN with an optional payload.  (A digit of another script counts as
\* the ASCII digit of its value; the model writes such a digit as that one.)
BadDecimal == [kind |-> "bad", neg |-> FALSE, coeff |-> <<>>, exp |-> SignedOfInt(0)]

SpecialDecimal(kind, neg, payload) ==
    [kind |-> kind, neg |-> neg, coeff |-> payload, exp |-> SignedOfInt(0)]

\* A number is refused when its adjusted exponent is above Emax or its
\* exponent below Etiny.
ParseInRange(neg, coeff, exp, adjusted) ==
    IF \/ (~adjusted.neg /\ BigCmp(adjusted.mag, DecimalEmax) > 0)
       \/ (exp.neg /\ BigCmp(exp.mag, DecimalEtiny) > 0)
    THEN BadDecimal
    ELSE [kind |-> "num", neg |-> neg, coeff |-> coeff, exp |-> exp]

ParseFinite(neg, coeff, exp) ==
    ParseInRange(neg, coeff, exp, SignedAdd(exp, SignedOfInt(Len(coeff) - 1)))

\* ip and fp are the digits before and after the point, e the exponent.
ParseParts(neg, ip, fp, e) ==
    IF /\ AllDigits(ip)
       /\ AllDigits(fp)
       /\ Len(ip) + Len(fp) > 0
       /\ AllDigits(Unsigned(e))
       /\ Len(Unsigned(e)) > 0
    THEN ParseFinite(neg, DropLeadingZeros(ip \o fp),
                     SignedAdd(Signed(IsNegative(e), BigOfDigits(Unsigned(e))),
                               Signed(TRUE, BigOfNat(Len(fp)))))
    ELSE BadDecimal

\* u is the text after the sign, low the same in lower case.
ParseLowered(neg, u, low) ==
    IF low \in {<<"i", "n", "f">>, <<"i", "n", "f", "i", "n", "i", "t", "y">>}
    THEN SpecialDecimal("inf", neg, <<>>)
    ELSE IF StartsWith(low, <<"n", "a", "n">>) /\ AllDigits(SubSeq(u, 4, Len(u)))
    THEN SpecialDecimal("nan", neg, NanPayload(SubSeq(u, 4, Len(u))))
    ELSE IF StartsWith(low, <<"s", "n", "a", "n">>) /\ AllDigits(SubSeq(u, 5, Len(u)))
    THEN SpecialDecimal("snan", neg, NanPayload(SubSeq(u, 5, Len(u))))
    ELSE ParseParts(neg, IntPart(Mantissa(u)), FracPart(Mantissa(u)), ExpPart(u))

\* t is s without the blanks around it and without underscores.
ParseSigned(t) ==
    ParseLowered(IsNegative(t), Unsigned(t),
                 [i \in 1..Len(Unsigned(t)) |-> Lower(Unsigned(t)[i])])

ParseDecimal(s) == ParseSigned(SelectSeq(Strip(s), LAMBDA c : c # "_"))

\* Whether Decimal(s) accepts s.
IsDecimalSyntax(s) == ParseDecimal(s).kind # "bad"

\* str() of a finite Decimal: plain digits when the exponent is at most 0
\* and the number has fewer than six zeros after the point, else scientific
\* with one digit before the point.
PlainText(coeff, dotplace) ==
    IF dotplace <= 0
    THEN <<"0", ".">> \o [i \in 1..(-dotplace) |-> "0"] \o coeff
    ELSE IF dotplace >= Len(coeff) THEN coeff
    ELSE SubSeq(coeff, 1, dotplace) \o <<".">> \o SubSeq(coeff, dotplace + 1, Len(coeff))

SciText(coeff, sci) ==
    <<coeff[1]>> \o (IF Len(coeff) > 1 THEN <<".">> \o Tail(coeff) ELSE <<>>)
    \o <<"E", IF sci.neg THEN "-" ELSE "+">> \o BigToDigits(sci.mag)

NumberText(coeff, exp) ==
    IF (Len(exp.mag) = 0 \/ exp.neg) /\ BigCmp(exp.mag, BigOfNat(Len(coeff) + 6)) < 0
    THEN PlainText(coeff, Len(coeff) - BigToNat(exp.mag))
    ELSE SciText(coeff, SignedAdd(exp, SignedOfInt(Len(coeff) - 1)))

\* str() of the Decimal d.
TextOfDecimal(d) ==
    (IF d.neg THEN <<"-">> ELSE <<>>)
    \o CASE d.kind = "inf" -> <<"I", "n", "f", "i", "n", "i", "t", "y">>
         [] d.kind = "nan" -> <<"N", "a", "N">> \o d.coeff
         [] d.kind = "snan" -> <<"s", "N", "a", "N">> \o d.coeff
         [] OTHER -> NumberText(d.coeff, d.exp)

\* str(Decimal(s)) for an accepted s.
DecimalText(s) == TextOfDecimal(ParseDecimal(s))

\* ----------------------------------------------------------- to_decimal_safe

\* The cleaning of a str before the Decimal attempt.
CleanNumericText(s) ==
    LET s1 == Strip(s)
        s2 == Replace(s1, <<" ", "k", "m">>, <<>>)
        s3 == Replace(s2, <<"k", "m">>, <<>>)
        s4 == Replace(s3, <<",">>, <<".">>)
    IN  Replace(s4, <<ZWSP>>, <<>>)

\* Decimal(s) of the cleaned str s, read as d, or s itself when refused.
DecimalOrText(s, d) ==
    IF d.kind # "bad" THEN PyDecimal(TextOfDecimal(d)) ELSE PyStr(s)

to_decimal_safe(x) ==
    CASE x.t = "none" -> None
      [] x.t = "dec" -> x
      [] x.t = "bool" -> PyDecimal(IF x = PyTrue THEN <<"1">> ELSE <<"0">>)
      [] x.t = "int" -> PyDecimal(x.v)
      [] x.t = "float" -> PyDecimal(DecimalText(x.v))
      [] x.t = "str" -> DecimalOrText(CleanNumericText(x.v),
                                      ParseDecimal(CleanNumericText(x.v)))
      [] OTHER -> PyStr(x.v)

\* ------------------------------------------------------- IEEE 754 doubles

\* p / q brought into [2^52, 2^53) by powers of two; lo is q * 2^52 and e
\* counts the powers taken out.
RECURSIVE ScaleMantissa(_, _, _, _)
ScaleMantissa(p, q, lo, e) ==
    IF BigCmp(p, lo) < 0 THEN ScaleMantissa(BigDouble(p), q, lo, e - 1)
    ELSE IF BigCmp(p, BigDouble(lo)) >= 0
         THEN ScaleMantissa(p, BigDouble(q), BigDouble(lo), e + 1)
         ELSE [p |-> p, q |-> q, e |-> e]

\* The integer nearest to p / q, a tie going to the even one: dm is the
\* quotient and the remainder, c compares twice the remainder with q.
RoundQuotient(dm, q) ==
    LET c == BigCmp(BigDouble(dm.r), q)
    IN  IF c > 0 \/ (c = 0 /\ Len(dm.q) > 0 /\ Last(dm.q) % 2 = 1)
        THEN BigAdd(dm.q, <<1>>) ELSE dm.q

RoundHalfEven(p, q) == RoundQuotient(BigDivMod(p, q), q)

\* A power of two that brings p / q close below 2^52: p / q has about
\* Len(p) - Len(q) decimal digits, each worth log2(10) = 3.322 bits.
FirstShift(p, q) == 50 - (3322 * (Len(p) - Len(q) + 1)) \div 1000

\* The double nearest to p / q (p, q > 0), as m * 2^e with m of 53 bits:
\* what a float division or the reading of a float literal returns, for a
\* value in the range of the normal doubles.
RoundScaled(s) == [m |-> RoundHalfEven(s.p, s.q), e |-> s.e]

RoundFrom(p0, q0, e0) == RoundScaled(ScaleMantissa(p0, q0, MulPow2(q0, 52), e0))

RoundDouble(p, q) ==
    RoundFrom(IF FirstShift(p, q) > 0 THEN MulPow2(p, FirstShift(p, q)) ELSE p,
              IF FirstShift(p, q) < 0 THEN MulPow2(q, -FirstShift(p, q)) ELSE q,
              -FirstShift(p, q))

\* The double m * 2^e as a fraction.
DoubleNum(d) == MulPow2(d.m, IF d.e > 0 THEN d.e ELSE 0)
DoubleDen(d) == MulPow2(<<1>>, IF d.e < 0 THEN -d.e ELSE 0)

\* --------------------------------------------- epoch milliseconds to ISO-8601

RECURSIVE DigitsToNat(_)
DigitsToNat(s) ==
    IF Len(s) = 0 THEN 0
    ELSE 10 * DigitsToNat(SubSeq(s, 1, Len(s) - 1)) + DigitVal(s[Len(s)])

RECURSIVE NatToDigits(_)
NatToDigits(n) ==
    IF n < 10 THEN <<Digits[n + 1]>>
    ELSE NatToDigits(n \div 10) \o <<Digits[(n % 10) + 1]>>

RECURSIVE ZeroPad(_, _)
ZeroPad(s, width) == IF Len(s) >= width THEN s ELSE ZeroPad(<<"0">> \o s, width)

Pad(n, width) == ZeroPad(NatToDigits(n), width)

\* The proleptic Gregorian date of a day count from 1970-01-01.
CivilFromDays(days) ==
    LET z == days + 719468
        era == z \div 146097
        doe == z - era * 146097
        yoe == (doe - doe \div 1460 + doe \div 36524 - doe \div 146096) \div 365
        doy == doe - (365 * yoe + yoe \div 4 - yoe \div 100)
        mp == (5 * doy + 2) \div 153
        d == doy - (153 * mp + 2) \div 5 + 1
        m == IF mp < 10 THEN mp + 3 ELSE mp - 9
        y == yoe + era * 400 + (IF m <= 2 THEN 1 ELSE 0)
    IN  [y |-> y, m |-> m, d |-> d]

\* The first and the last second datetime holds: 0001-01-01T00:00:00 and
\* 9999-12-31T23:59:59, counted from the epoch.
MinSecond == BigOfDigits(<<"6", "2", "1", "3", "5", "5", "9", "6", "8", "0", "0">>)
MaxSecond == BigOfDigits(<<"2", "5", "3", "4", "0", "2", "3", "0", "0", "7", "9", "9">>)

SecondsPerDay == 86400
MicrosPerSecond == 1000000

\* The magnitude of a numeric fecha as the fraction num / den: an int is
\* itself, a float is the double its repr stands for.  "raise" stands for a
\* value utcfromtimestamp or the division refuses whatever the rounding
\* (nan, inf, or 10^15 ms and more, past year 9999); "zero" for a value that
\* rounds to no microsecond (0, or below 10^-4 ms).
Ratio(neg, num, den) == [kind |-> "ratio", neg |-> neg, num |-> num, den |-> den]
NoRatio(kind) == [kind |-> kind, neg |-> FALSE, num |-> <<>>, den |-> <<1>>]

\* A float fecha that is the double dbl.
DoubleRatio(neg, dbl) == Ratio(neg, DoubleNum(dbl), DoubleDen(dbl))

\* A float fecha of coefficient c (n digits) and exponent e.
ScaledMillis(neg, c, n, e) ==
    IF e + n - 1 >= 15 THEN NoRatio("raise")
    ELSE IF e + n - 1 < -4 THEN NoRatio("zero")
    ELSE DoubleRatio(neg, RoundDouble(MulPow10(c, IF e > 0 THEN e ELSE 0),
                                      MulPow10(<<1>>, IF e < 0 THEN -e ELSE 0)))

\* A float fecha from the reading d of its repr.
FloatMillis(d) ==
    IF d.kind # "num" THEN NoRatio("raise")
    ELSE IF AllZero(d.coeff) THEN NoRatio("zero")
    ELSE IF Len(d.exp.mag) > 4 THEN NoRatio(IF d.exp.neg THEN "zero" ELSE "raise")
    ELSE ScaledMillis(d.neg, BigOfDigits(d.coeff), Len(d.coeff),
                      IF d.exp.neg THEN -BigToNat(d.exp.mag) ELSE BigToNat(d.exp.mag))

EpochMillis(x) ==
    CASE x.t = "bool" -> IF x = PyTrue THEN Ratio(FALSE, <<1>>, <<1>>) ELSE NoRatio("zero")
      [] x.t = "int" ->
           IF AllZero(Unsigned(x.v)) THEN NoRatio("zero")
           ELSE IF Len(BigOfDigits(Unsigned(x.v))) > 15 THEN NoRatio("raise")
           ELSE Ratio(IsNegative(x.v), BigOfDigits(Unsigned(x.v)), <<1>>)
      [] OTHER -> FloatMillis(ParseDecimal(x.v))

\* datetime.utcfromtimestamp(fecha_val / 1000): the division rounds to a
\* double, the double is split into whole seconds and a fraction, the
\* fraction times 10^6 rounds to a double and then, half to even, to the
\* microseconds; a negative fraction borrows one second.  The result is the
\* second (an integer) and the microsecond, or a raise outside years 1..9999.
UtcResult(sec, us) ==
    [raises |-> BigCmp(sec.mag, IF sec.neg THEN MinSecond ELSE MaxSecond) > 0,
     sec |-> sec, us |-> us]

\* The second and the microsecond from the whole seconds q of the magnitude
\* and its rounded microseconds us0.
UtcOfMicros(neg, q, us0) ==
    IF neg
    THEN UtcResult(Signed(TRUE, IF us0 = 0 THEN q ELSE BigAdd(q, <<1>>)),
                   IF us0 = 0 THEN 0 ELSE MicrosPerSecond - us0)
    ELSE UtcResult(Signed(FALSE, IF us0 = MicrosPerSecond THEN BigAdd(q, <<1>>) ELSE q),
                   IF us0 = MicrosPerSecond THEN 0 ELSE us0)

\* round-half-even of the double y.
Micros(y) == BigToNat(RoundHalfEven(DoubleNum(y), DoubleDen(y)))

\* split is the double's whole seconds and its remainder over den.
UtcOfSplit(neg, split, den) ==
    UtcOfMicros(neg, split.q,
                IF Len(split.r) = 0 THEN 0
                ELSE Micros(RoundDouble(MulPow10(split.r, 6), den)))

\* t is the double fecha_val / 1000.
UtcOfDouble(neg, t) == UtcOfSplit(neg, BigDivMod(DoubleNum(t), DoubleDen(t)), DoubleDen(t))

UtcOfMillis(ms) ==
    CASE ms.kind = "raise" -> [raises |-> TRUE, sec |-> SignedOfInt(0), us |-> 0]
      [] ms.kind = "zero" -> [raises |-> FALSE, sec |-> SignedOfInt(0), us |-> 0]
      [] OTHER -> UtcOfDouble(ms.neg, RoundDouble(ms.num, MulPow10(ms.den, 3)))

UtcFromTimestamp(x) == UtcOfMillis(EpochMillis(x))

\* Whether the conversion of a numeric fecha raises.
TimestampRaises(x) == UtcFromTimestamp(x).raises

\* The text of a date, a second of the day and a microsecond.
IsoText(date, sod, us) ==
    Pad(date.y, 4) \o <<"-">> \o Pad(date.m, 2) \o <<"-">> \o Pad(date.d, 2)
    \o <<"T">> \o Pad(sod \div 3600, 2) \o <<":">> \o Pad((sod % 3600) \div 60, 2)
    \o <<":">> \o Pad(sod % 60, 2)
    \o (IF us = 0 THEN <<>> ELSE <<".">> \o Pad(us, 6)) \o <<"Z">>

\* q days and r seconds away from the epoch, backwards when neg.
IsoOfDays(neg, q, r, us) ==
    IsoText(CivilFromDays(IF ~neg THEN q ELSE IF r = 0 THEN -q ELSE -q - 1),
            IF ~neg \/ r = 0 THEN r ELSE SecondsPerDay - r, us)

\* datetime.isoformat() + "Z" of a second and a microsecond: the
\* microseconds are written, six digits, when they are not zero.
IsoFormat(sec, us) ==
    IsoOfDays(sec.neg, BigToNat(BigDivMod(sec.mag, BigOfNat(SecondsPerDay)).q),
              BigToNat(BigDivMod(sec.mag, BigOfNat(SecondsPerDay)).r), us)

\* The entry of a numeric fecha whose conversion gave ts.
FechaOfTimestamp(fecha_val, ts) ==
    IF ts.raises
    THEN [key |-> "fecha_raw", val |-> PyStr(fecha_val.v)]
    ELSE [key |-> "fecha_iso", val |-> PyStr(IsoFormat(ts.sec, ts.us))]

FechaOfValue(fecha_val) ==
    IF fecha_val.t \in {"int", "float", "bool"}
    THEN FechaOfTimestamp(fecha_val, UtcFromTimestamp(fecha_val))
    ELSE [key |-> "fecha_raw",
          val |-> IF fecha_val.t = "none" THEN None ELSE PyStr(fecha_val.v)]

\* The timestamp entry of the item: its key and its value.
FechaField(attr) == FechaOfValue(OrChain(<<Get(attr, "fecha"), Get(attr, "Fecha")>>))

\* ------------------------------------------------ normalizer of one feature

MagAliases == <<"mag", "MAG", "magnitud", "magn">>
DepthAliases == <<"profundidad", "PROFUNDIDAD", "depth", "z">>
LatAliases == <<"lat", "LAT", "latitude">>
LonAliases == <<"lon", "LON", "longitude">>
RefAliases == <<"referencia", "Referencia", "ref", "referencia_texto">>
IdAliases == <<"OBJECTID", "OBJECTID_1", "id", "ID">>

Probe(attr, aliases) == [i \in 1..Len(aliases) |-> Get(attr, aliases[i])]

\* attr.get(a1) or attr.get(a2) or ...
AliasValue(attr, aliases) == OrChain(Probe(attr, aliases))

\* geom.get(c) or attr.get(a1) or ...
CoordValue(geom, coord, attr, aliases) == OrChain(<<Get(geom, coord)>> \o Probe(attr, aliases))

\* ... or None
AliasOrNone(attr, aliases) == OrChain(Probe(attr, aliases) \o <<None>>)

\* The raw attribute passthrough: floats become Decimal, other scalars
\* stay, a list or a dict becomes its str().
RawAttributes(attr) ==
    [k \in DOMAIN attr |->
        CASE attr[k].t = "float" -> to_decimal_safe(attr[k])
          [] attr[k].t \in {"str", "int", "bool", "none"} -> attr[k]
          [] OTHER -> PyStr(attr[k].v)]

\* feat.get(key, {}) or {}: the dict under the key, the empty dict when the
\* key is missing or its value is falsy (null, an empty dict).
DictOrEmpty(feat, key) ==
    LET x == IF key \in DOMAIN feat THEN feat[key] ELSE PyDict(EmptyDict)
    IN  IF Truthy(x) THEN x.v ELSE EmptyDict

AttrOf(feat) == DictOrEmpty(feat, "attributes")
GeomOf(feat) == DictOrEmpty(feat, "geometry")

\* attr.get and geom.get raise AttributeError when the value under the key
\* is truthy and not a dict; fetch_latest_sismos does not catch it.
FeatureRaises(feat) ==
    \E key \in {"attributes", "geometry"} \cap DOMAIN feat :
        Truthy(feat[key]) /\ feat[key].t # "dict"

\* The item fetch_latest_sismos builds from the attributes and the geometry
\* of one feature.
ItemOf(attr, geom, fecha) ==
    (fecha.key :> fecha.val)
    @@ ("magnitud" :> to_decimal_safe(AliasValue(attr, MagAliases)))
    @@ ("profundidad_km" :> to_decimal_safe(AliasValue(attr, DepthAliases)))
    @@ ("referencia_texto" :> AliasOrNone(attr, RefAliases))
    @@ ("latitude" :> to_decimal_safe(CoordValue(geom, "y", attr, LatAliases)))
    @@ ("longitude" :> to_decimal_safe(CoordValue(geom, "x", attr, LonAliases)))
    @@ ("report_id" :> AliasOrNone(attr, IdAliases))
    @@ ("raw_attributes" :> PyDict(RawAttributes(attr)))

Normalize(feat) == ItemOf(AttrOf(feat), GeomOf(feat), FechaField(AttrOf(feat)))

\* Mutant: the None values are kept.
clean_item_keep_none(item) == item

\* Drop the keys whose value is None.
clean_item_for_dynamo(item) ==
    [k \in {j \in DOMAIN item : item[j].t # "none"} |-> item[k]]

\* ------------------------------------------------------------ upstream data

\* A feature with numeric magnitude, depth and coordinates: the first
\* record of the end-to-end scenario (mag 5.2, profundidad "10 km", fecha in
\* epoch milliseconds).
FeatNumeric ==
    [attributes |-> PyDict(
        ("fecha" :> PyInt(<<"1","7","0","0","0","0","0","0","0","0","0","0","0">>))
        @@ ("mag" :> PyFloat(<<"5", ".", "2">>))
        @@ ("profundidad" :> PyStr(<<"1", "0", " ", "k", "m">>))
        @@ ("referencia" :> PyStr(<<"L", "i", "m", "a">>))),
     geometry |-> PyDict(("x" :> PyFloat(<<"-", "7", "7", ".", "0", "3">>))
                         @@ ("y" :> PyFloat(<<"-", "1", "2", ".", "5">>)))]

\* A feature none of whose fields coerces to a Decimal.
FeatText ==
    [attributes |-> PyDict(
        ("fecha" :> PyStr(<<"2", "0", "2", "3", "-", "1", "1", "-", "1", "4">>))
        @@ ("mag" :> PyStr(<<"s", "/", "d">>))
        @@ ("referencia" :> PyStr(<<"I", "c", "a">>))),
     geometry |-> None]

\* The i-th feature of an upstream response of the given kind: all textual,
\* all numeric, or numeric only past the fifth record.
FeedFeature(kind, i) ==
    CASE kind = "text" -> FeatText
      [] kind = "numeric" -> FeatNumeric
      [] OTHER -> IF i > 5 THEN FeatNumeric ELSE FeatText

\* fetch_latest_sismos on a response of n features: the normalized items.
FetchedItems(kind, n) == [i \in 1..n |-> Normalize(FeedFeature(kind, i))]

\* Mutant: an id that does not change from one draw to the next.
FreshIdReused(n) == PyStr(<<"#", "0">>)

\* str(uuid.uuid4()): a value no earlier draw returned.
FreshId(n) == PyStr(<<"#">> \o NatToDigits(n))

\* item = dict(s); item["id"] = ...; item["numero"] = idx; cleaned = ...
StoredItem(s, n, i) ==
    clean_item_for_dynamo(("id" :> FreshId(n)) @@ ("numero" :> PyInt(NatToDigits(i))) @@ s)

\* ------------------------------------------------------------------- state

Slots == {1, 2}

VARIABLES
    table,        \* the DynamoDB table: a set of items, one per id
    uuidCount,    \* uuid4 values drawn so far (each draw is fresh)
    runs,         \* invocations of lambda_handler started so far
    pc,           \* per invocation slot: where the handler is
    sismos,       \* per slot: the fetched batch
    existing,     \* per slot: the Items of the cleanup scan
    idx,          \* per slot: the enumerate index of the next insert
    result,       \* per slot: the result dict
    response,     \* per slot: what the handler returned
    startTable,   \* history: the table when the invocation started
    inserted,     \* history: the items put_item stored, in order
    log,          \* history: the writes the table saw from the slot
    fetchOutcome, \* history: how the fetch of the invocation ended
    raw,          \* normalizer run: the feature under normalization
    item,         \* normalizer run: the normalized item
    cleaned,      \* normalizer run: the item after clean_item_for_dynamo
    npc           \* normalizer run: "idle", "raw", "raised", "normalized" or "cleaned"

handlerVars == <<table, uuidCount, runs, pc, sismos, existing, idx, result, response,
                 startTable, inserted, log, fetchOutcome>>
vars == <<table, uuidCount, runs, pc, sismos, existing, idx, result, response,
          startTable, inserted, log, fetchOutcome, raw, item, cleaned, npc>>

\* result = {"fetched": 0, "saved": 0, "table_after_save_count": 0, ...}
EmptyResult ==
    [fetched |-> 0, saved |-> 0, table_after_save_count |-> 0,
     errors |-> <<>>, sample_saved |-> <<>>]

NoResponse == [statusCode |-> 0, body |-> <<>>]

NoItem == [k \in {} |-> None]

\* What an earlier invocation that stored k items left behind.
OldTable(k) == {StoredItem(Normalize(FeatText), j, j) : j \in 1..k}

HandlerStart(k) ==
    /\ table = OldTable(k)
    /\ uuidCount = k
    /\ runs = 0
    /\ pc = [p \in Slots |-> "idle"]
    /\ sismos = [p \in Slots |-> <<>>]
    /\ existing = [p \in Slots |-> <<>>]
    /\ idx = [p \in Slots |-> 1]
    /\ result = [p \in Slots |-> EmptyResult]
    /\ response = [p \in Slots |-> NoResponse]
    /\ startTable = [p \in Slots |-> {}]
    /\ inserted = [p \in Slots |-> <<>>]
    /\ log = [p \in Slots |-> <<>>]
    /\ fetchOutcome = [p \in Slots |-> "none"]

Init ==
    /\ \E k \in 0..MaxOld : HandlerStart(k)
    /\ raw = FeatText
    /\ item = NoItem
    /\ cleaned = NoItem
    /\ npc = "idle"

\* ------------------------------------------------------ the DynamoDB table

IdNum(it) == DigitsToNat(Tail(it["id"].v))

\* The items of the table in the order a scan returns them (the order the
\* ids were drawn stands for DynamoDB's hash order).
RECURSIVE ScanOrder(_)
ScanOrder(tbl) ==
    IF tbl = {} THEN <<>>
    ELSE LET first == CHOOSE it \in tbl : \A o \in tbl : IdNum(it) <= IdNum(o)
         IN  <<first>> \o ScanOrder(tbl \ {first})

\* ProjectionExpression="id"
Min(a, b) == IF a < b THEN a ELSE b

\* scan(ProjectionExpression="id") returns one page: the first items of the
\* table, as many as fit.
ScanPage(tbl) ==
    [i \in 1..Min(Cardinality(tbl), PageItems) |->
        [k \in {"id"} \cap DOMAIN ScanOrder(tbl)[i] |-> ScanOrder(tbl)[i][k]]]

Keys(tbl) == {it["id"] : it \in tbl}

\* Mutant: the loop over existing skips its first item.
DeleteRequestsSkipFirst(items) ==
    LET rest == IF Len(items) = 0 THEN items ELSE Tail(items)
        withId == SelectSeq(rest, LAMBDA it : "id" \in DOMAIN it)
    IN  [i \in 1..Len(withId) |-> withId[i]["id"]]

\* for it in existing: if "id" in it: batch.delete_item(Key={"id": it["id"]})
DeleteRequests(items) ==
    LET withId == SelectSeq(items, LAMBDA it : "id" \in DOMAIN it)
    IN  [i \in 1..Len(withId) |-> withId[i]["id"]]

Range(seq) == {seq[i] : i \in 1..Len(seq)}

\* The table after the deletes of the given keys.
DeleteItems(tbl, keys) == {it \in tbl : it["id"] \notin Range(keys)}

\* put_item: the item replaces the one of the same id, if any.
PutItem(tbl, it) == {o \in tbl : o["id"] # it["id"]} \cup {it}

\* scan(Limit=20): the number of items of the page.
AfterScanLimit == 20
AfterScanCount(tbl) == Min(Min(Cardinality(tbl), PageItems), AfterScanLimit)

\* ----------------------------------------------------------- lambda_handler

\* json.dumps raises TypeError on a Decimal, at any depth of the result;
\* the other values of the model (None, bool, int, str, dict) serialize.
ItemSerializable(it) ==
    \A k \in DOMAIN it :
        /\ it[k].t # "dec"
        /\ it[k].t = "dict" => \A j \in DOMAIN it[k].v : it[k].v[j].t # "dec"

JsonSerializable(res) ==
    \A i \in 1..Len(res.sample_saved) : ItemSerializable(res.sample_saved[i])

\* return {"statusCode": code, "body": json.dumps(result)}: the response,
\* or no response when json.dumps raises out of the handler.
ResponseOf(code, res) ==
    IF JsonSerializable(res) THEN [statusCode |-> code, body |-> <<res>>] ELSE NoResponse

PcAfterReturn(res) == IF JsonSerializable(res) THEN "returned" ELSE "raised"

\* Mutant: an invocation waits while another one is between its fetch and
\* its return.
AdmitUnderLock(p) == \A q \in Slots \ {p} : pc[q] \in {"idle", "returned", "raised"}

\* The handler takes no lock and tests no marker before it starts.
Admit(p) == TRUE

Finished(p) == pc[p] \in {"returned", "raised"}

CanInvoke(p, limit) ==
    /\ pc[p] = "idle" \/ Finished(p)
    /\ runs < limit
    /\ Admit(p)

\* Mutant: the empty batch is not told apart.
NoSismosNever(s) == FALSE

\* if not sismos
NoSismos(s) == Len(s) = 0

\* if len(result["sample_saved"]) < 5
SampleCap == 5

\* Mutant: the comparison lets one item more in.
SampleHasRoomOffByOne(sample) == Len(sample) <= SampleCap

SampleHasRoom(sample) == Len(sample) < SampleCap

\* Where the handler goes after the cleanup block: into the insert loop, or
\* past it when the batch is empty.
AfterCleanupPc(s) == IF Len(s) = 0 THEN "after" ELSE "insert"

Deletes(keys) == [i \in 1..Len(keys) |-> [op |-> "delete", key |-> keys[i]]]

ScanCall == [op |-> "scan", key |-> None]

\* A new invocation: fresh locals, and the history of the slot restarted.
Invoke(p, limit) ==
    /\ CanInvoke(p, limit)
    /\ runs' = runs + 1
    /\ existing' = [existing EXCEPT ![p] = <<>>]
    /\ idx' = [idx EXCEPT ![p] = 1]
    /\ startTable' = [startTable EXCEPT ![p] = table]
    /\ inserted' = [inserted EXCEPT ![p] = <<>>]
    /\ log' = [log EXCEPT ![p] = <<>>]
    /\ UNCHANGED <<table, uuidCount>>

\* fetch_latest_sismos raises (transport error, HTTP status, bad JSON).
FetchRaises(p, limit) ==
    /\ Invoke(p, limit)
    /\ LET res == [EmptyResult EXCEPT !.errors = <<"Error fetch", "traceback">>]
       IN  /\ result' = [result EXCEPT ![p] = res]
           /\ response' = [response EXCEPT ![p] = ResponseOf(500, res)]
           /\ pc' = [pc EXCEPT ![p] = PcAfterReturn(res)]
    /\ sismos' = [sismos EXCEPT ![p] = <<>>]
    /\ fetchOutcome' = [fetchOutcome EXCEPT ![p] = "raised"]
    /\ UNCHANGED <<raw, item, cleaned, npc>>

\* fetch_latest_sismos returns a batch of at most maxn items.
FetchReturns(p, maxn, limit) ==
    /\ Invoke(p, limit)
    /\ \E kind \in {"text", "numeric", "late"}, n \in 0..maxn :
         LET s == FetchedItems(kind, n)
             res == [EmptyResult EXCEPT !.fetched = Len(s)]
             res404 == [res EXCEPT !.errors = <<"No se obtuvieron sismos desde ArcGIS">>]
         IN  /\ sismos' = [sismos EXCEPT ![p] = s]
             /\ IF NoSismos(s)
                THEN /\ result' = [result EXCEPT ![p] = res404]
                     /\ response' = [response EXCEPT ![p] = ResponseOf(404, res404)]
                     /\ pc' = [pc EXCEPT ![p] = PcAfterReturn(res404)]
                ELSE /\ result' = [result EXCEPT ![p] = res]
                     /\ response' = [response EXCEPT ![p] = NoResponse]
                     /\ pc' = [pc EXCEPT ![p] = "scan"]
             /\ fetchOutcome' = [fetchOutcome EXCEPT ![p] = IF n = 0 THEN "empty" ELSE "ok"]
    /\ UNCHANGED <<raw, item, cleaned, npc>>

\* scan_resp = table_db.scan(ProjectionExpression="id") returns one page.
ScanExistingOk(p) ==
    /\ pc[p] = "scan"
    /\ existing' = [existing EXCEPT ![p] = ScanPage(table)]
    /\ pc' = [pc EXCEPT ![p] = IF Len(ScanPage(table)) > 0 THEN "delete"
                                ELSE AfterCleanupPc(sismos[p])]
    /\ log' = [log EXCEPT ![p] = Append(@, ScanCall)]
    /\ UNCHANGED <<table, uuidCount, runs, sismos, idx, result, response, startTable,
                   inserted, fetchOutcome, raw, item, cleaned, npc>>

\* The scan raises: the warning is recorded and the handler goes on.
ScanExistingFails(p) ==
    /\ pc[p] = "scan"
    /\ result' = [result EXCEPT ![p].errors = Append(@, "Warn scan/delete")]
    /\ pc' = [pc EXCEPT ![p] = AfterCleanupPc(sismos[p])]
    /\ log' = [log EXCEPT ![p] = Append(@, ScanCall)]
    /\ UNCHANGED <<table, uuidCount, runs, sismos, existing, idx, response, startTable,
                   inserted, fetchOutcome, raw, item, cleaned, npc>>

\* with table_db.batch_writer() as batch: every delete is sent.
BatchDeleteOk(p) ==
    /\ pc[p] = "delete"
    /\ LET keys == DeleteRequests(existing[p])
       IN  /\ table' = DeleteItems(table, keys)
           /\ log' = [log EXCEPT ![p] = @ \o Deletes(keys)]
    /\ pc' = [pc EXCEPT ![p] = AfterCleanupPc(sismos[p])]
    /\ UNCHANGED <<uuidCount, runs, sismos, existing, idx, result, response, startTable,
                   inserted, fetchOutcome, raw, item, cleaned, npc>>

\* The batch writer raises after the first j deletes went through: before
\* any, between two, or after the last one (its answer lost).
BatchDeleteFails(p) ==
    /\ pc[p] = "delete"
    /\ LET keys == DeleteRequests(existing[p])
       IN  \E j \in 0..Len(keys) :
             /\ table' = DeleteItems(table, SubSeq(keys, 1, j))
             /\ log' = [log EXCEPT ![p] = @ \o Deletes(SubSeq(keys, 1, j))]
    /\ result' = [result EXCEPT ![p].errors = Append(@, "Warn scan/delete")]
    /\ pc' = [pc EXCEPT ![p] = AfterCleanupPc(sismos[p])]
    /\ UNCHANGED <<uuidCount, runs, sismos, existing, idx, response, startTable,
                   inserted, fetchOutcome, raw, item, cleaned, npc>>

\* One turn of the insert loop whose put_item succeeds.
PutItemOk(p) ==
    /\ pc[p] = "insert"
    /\ LET i == idx[p]
           it == StoredItem(sismos[p][i], uuidCount + 1, i)
       IN  /\ uuidCount' = uuidCount + 1
           /\ table' = PutItem(table, it)
           /\ result' = [result EXCEPT
                           ![p].saved = @ + 1,
                           ![p].sample_saved = IF SampleHasRoom(@) THEN Append(@, it) ELSE @]
           /\ inserted' = [inserted EXCEPT ![p] = Append(@, it)]
           /\ log' = [log EXCEPT ![p] = Append(@, [op |-> "put", key |-> it["id"]])]
           /\ idx' = [idx EXCEPT ![p] = i + 1]
           /\ pc' = [pc EXCEPT ![p] = IF i = Len(sismos[p]) THEN "after" ELSE "insert"]
    /\ UNCHANGED <<runs, sismos, existing, response, startTable, fetchOutcome, raw, item, cleaned, npc>>

\* One turn of the insert loop whose put_item raises: the outer handlers
\* record the error and return 500.
PutItemFails(p) ==
    /\ pc[p] = "insert"
    /\ uuidCount' = uuidCount + 1
    /\ \E msg \in {"Dynamo ClientError", "Write error"} :
         LET res == [result[p] EXCEPT !.errors = @ \o <<msg, "traceback">>]
         IN  /\ result' = [result EXCEPT ![p] = res]
             /\ response' = [response EXCEPT ![p] = ResponseOf(500, res)]
             /\ pc' = [pc EXCEPT ![p] = PcAfterReturn(res)]
    /\ UNCHANGED <<table, runs, sismos, existing, idx, startTable, inserted, log,
                   fetchOutcome, raw, item, cleaned, npc>>

\* after = table_db.scan(Limit=20), then the final return.
ScanAfterOk(p) ==
    /\ pc[p] = "after"
    /\ LET res == [result[p] EXCEPT !.table_after_save_count = AfterScanCount(table)]
       IN  /\ result' = [result EXCEPT ![p] = res]
           /\ response' = [response EXCEPT ![p] = ResponseOf(200, res)]
           /\ pc' = [pc EXCEPT ![p] = PcAfterReturn(res)]
    /\ log' = [log EXCEPT ![p] = Append(@, ScanCall)]
    /\ UNCHANGED <<table, uuidCount, runs, sismos, existing, idx, startTable, inserted,
                   fetchOutcome, raw, item, cleaned, npc>>

\* The final scan raises: a warning, then the final return.
ScanAfterFails(p) ==
    /\ pc[p] = "after"
    /\ LET res == [result[p] EXCEPT !.errors = Append(@, "Warn scan after")]
       IN  /\ result' = [result EXCEPT ![p] = res]
           /\ response' = [response EXCEPT ![p] = ResponseOf(200, res)]
           /\ pc' = [pc EXCEPT ![p] = PcAfterReturn(res)]
    /\ log' = [log EXCEPT ![p] = Append(@, ScanCall)]
    /\ UNCHANGED <<table, uuidCount, runs, sismos, existing, idx, startTable, inserted,
                   fetchOutcome, raw, item, cleaned, npc>>

Step(p, maxn, limit) ==
    \/ FetchRaises(p, limit)
    \/ FetchReturns(p, maxn, limit)
    \/ ScanExistingOk(p)
    \/ ScanExistingFails(p)
    \/ BatchDeleteOk(p)
    \/ BatchDeleteFails(p)
    \/ PutItemOk(p)
    \/ PutItemFails(p)
    \/ ScanAfterOk(p)
    \/ ScanAfterFails(p)

\* Invocations made one at a time, each after the one before has ended.
Next == Step(1, MaxBatch, MaxRuns)

Spec == Init /\ [][Next]_vars

\* One invocation per slot, both at once: nothing orders their steps.
NextConc == \E p \in Slots : Step(p, MaxConcBatch, Cardinality(Slots))

SpecConc == Init /\ [][NextConc]_vars

\* ------------------------------------------------- the normalizer on its own

\* A key a feature does not carry.
Absent == [t |-> "absent", v |-> <<>>]

\* The scalar values a field of a feature takes in the normalizer runs: null, a
\* boolean, the numbers 0 and 5.2, the empty string, a string with a unit,
\* a string that is no number; and a list.
NormValues ==
    {None, PyFalse, PyInt(<<"0">>), PyFloat(<<"5", ".", "2">>), PyStr(<<>>),
     PyStr(<<"1", "0", " ", "k", "m">>), PyStr(<<"s", "/", "d">>),
     PyOther(<<"[", "7", "]">>)}

\* The dict of the keys that are present.
Present(f) == [k \in {j \in DOMAIN f : f[j] # Absent} |-> f[k]]

\* The features of the normalizer runs: every assignment of a value, or of none, to
\* the aliases of one canonical field (and to its geometry coordinate).
FeaturesOver(aliases, coord) ==
    {[attributes |-> PyDict(Present(f)), geometry |-> PyDict(Present(g))] :
        f \in [{aliases[i] : i \in 1..Len(aliases)} -> NormValues \cup {Absent}],
        g \in [coord -> IF coord = {} THEN {Absent} ELSE NormValues \cup {Absent}]}

\* The features of irregular shape: "attributes" or "geometry" missing,
\* null, an empty dict, a dict, or a string where the dict should be.
ShapeFeatures ==
    UNION {[S -> {None, PyDict(EmptyDict), PyDict("mag" :> PyInt(<<"4">>)),
                  PyDict("y" :> PyInt(<<"7">>)), PyStr(<<"s", "/", "d">>)}] :
           S \in SUBSET {"attributes", "geometry"}}

RawFeatures ==
    FeaturesOver(MagAliases, {}) \cup FeaturesOver(DepthAliases, {})
    \cup FeaturesOver(LatAliases, {"y"}) \cup FeaturesOver(LonAliases, {"x"})
    \cup ShapeFeatures

InitNorm ==
    /\ HandlerStart(0)
    /\ raw \in RawFeatures
    /\ item = NoItem
    /\ cleaned = NoItem
    /\ npc = "raw"

\* The per-feature body of fetch_latest_sismos.
NormalizeStep ==
    /\ npc = "raw"
    /\ ~FeatureRaises(raw)
    /\ item' = Normalize(raw)
    /\ npc' = "normalized"
    /\ UNCHANGED <<raw, cleaned, handlerVars>>

\* The per-feature body raises at its first attr.get or geom.get.
NormalizeRaises ==
    /\ npc = "raw"
    /\ FeatureRaises(raw)
    /\ npc' = "raised"
    /\ UNCHANGED <<raw, item, cleaned, handlerVars>>

\* cleaned = clean_item_for_dynamo(item)
CleanStep ==
    /\ npc = "normalized"
    /\ cleaned' = clean_item_for_dynamo(item)
    /\ npc' = "cleaned"
    /\ UNCHANGED <<raw, item, handlerVars>>

NextNorm == NormalizeStep \/ NormalizeRaises \/ CleanStep

SpecNorm == InitNorm /\ [][NextNorm]_vars

\* ------------------------------------------------------------------ claims

Errors(p) == Range(result[p].errors)

CleanupFailed(p) == "Warn scan/delete" \in Errors(p)

InsertFailed(p) == Errors(p) \cap {"Dynamo ClientError", "Write error"} # {}

PutIndexes(l) == {i \in 1..Len(l) : l[i].op = "put"}

\* The delete of key k reached the table before every put of the log.
DeletedBeforePuts(l, k) ==
    \E i \in 1..Len(l) :
        /\ l[i] = [op |-> "delete", key |-> k]
        /\ \A j \in PutIndexes(l) : i < j

\* The keys the invocation's deletes removed.
DeletedKeys(l) == {l[i].key : i \in {j \in 1..Len(l) : l[j].op = "delete"}}

\* The cleanup scan returned every key the table had at the start and
\* neither the scan nor the batch delete raised.
CleanupWhole(p) ==
    /\ ~CleanupFailed(p)
    /\ Keys(startTable[p]) \subseteq {existing[p][i]["id"] : i \in 1..Len(existing[p])}

\* C1: no exception ever escapes lambda_handler: every invocation that ends
\* has returned a status code of 200, 404 or 500 with the result as body.
C1_NeverRaises ==
    \A p \in Slots :
        /\ pc[p] # "raised"
        /\ pc[p] = "returned" =>
             /\ response[p].statusCode \in {200, 404, 500}
             /\ response[p].body = <<result[p]>>

\* C2 as claimed: once a run has made an insert, every key the table held
\* when the run started was deleted before the first insert.
C2_AllOldKeysDeletedBeforeInsert ==
    \A p \in Slots :
        PutIndexes(log[p]) # {} =>
            \A k \in Keys(startTable[p]) : DeletedBeforePuts(log[p], k)

\* C2 as amended: no delete of a run follows one of its inserts; and when
\* the cleanup scan returned every key and the cleanup raised nothing, every
\* key the table held at the start was deleted before the first insert and
\* is gone from the table.
C2_CleanupPrecedesInserts ==
    \A p \in Slots :
        /\ \A i, j \in 1..Len(log[p]) :
             (i < j /\ log[p][i].op = "put") => log[p][j].op # "delete"
        /\ (PutIndexes(log[p]) # {} /\ CleanupWhole(p)) =>
             \A k \in Keys(startTable[p]) :
                 DeletedBeforePuts(log[p], k) /\ k \notin Keys(table)

\* A run with a key to delete, a whole cleanup and an insert made.
C2_Witness ==
    /\ PutIndexes(log[1]) # {}
    /\ startTable[1] # {}
    /\ CleanupWhole(1)

\* C3 as claimed: after a run that returned 200 the table holds exactly the
\* items the run stored, one per fetched record, and none it held before.
C3_TableIsBatchAfter200 ==
    \A p \in Slots :
        response[p].statusCode = 200 =>
            /\ table = Range(inserted[p])
            /\ Cardinality(table) = result[p].fetched
            /\ Keys(table) \cap Keys(startTable[p]) = {}

\* C3 as amended: the same, for a run that returned 200 whose cleanup scan
\* returned every key and whose cleanup raised nothing.
C3_TableIsBatchAfterWholeCleanup ==
    \A p \in Slots :
        (response[p].statusCode = 200 /\ CleanupWhole(p)) =>
            /\ table = Range(inserted[p])
            /\ Cardinality(table) = result[p].fetched
            /\ Keys(table) \cap Keys(startTable[p]) = {}

\* A run that replaced an earlier item by a batch of two and returned 200.
C3_Witness ==
    /\ response[1].statusCode = 200
    /\ startTable[1] # {}
    /\ CleanupWhole(1)
    /\ Len(inserted[1]) >= 2

\* C4: a failure of the cleanup is not fatal: the run goes on to the
\* inserts, saved counts the inserts that succeeded, the error list holds
\* one cleanup entry, and when every insert succeeds the run returns 200
\* with the whole batch stored.
C4_CleanupFailureNotFatal ==
    \A p \in Slots :
        CleanupFailed(p) =>
            /\ pc[p] \in {"insert", "after", "returned", "raised"}
            /\ result[p].saved = Len(inserted[p])
            /\ Cardinality({i \in 1..Len(result[p].errors) :
                              result[p].errors[i] = "Warn scan/delete"}) = 1
            /\ (Finished(p) /\ ~InsertFailed(p)) =>
                 /\ response[p].statusCode = 200
                 /\ Len(inserted[p]) = Len(sismos[p])

\* C5: when the fetch raises or returns no record the run makes no call to
\* the table, the table is as it was, saved is 0; the status is 404 with
\* fetched 0 and one error message for the empty batch, 500 for the raise.
C5_UpstreamFailureWritesNothing ==
    \A p \in Slots :
        fetchOutcome[p] \in {"raised", "empty"} =>
            /\ log[p] = <<>>
            /\ existing[p] = <<>>
            /\ table = startTable[p]
            /\ pc[p] = "returned"
            /\ result[p].saved = 0
            /\ response[p].body = <<result[p]>>
            /\ fetchOutcome[p] = "empty" =>
                 /\ response[p].statusCode = 404
                 /\ result[p].fetched = 0
                 /\ Len(result[p].errors) = 1
            /\ fetchOutcome[p] = "raised" => response[p].statusCode = 500

\* The empty batch met a table that holds items.
C5_Witness ==
    /\ fetchOutcome[1] = "empty"
    /\ response[1].statusCode = 404
    /\ table # {}

\* C6: when the insert of the k-th record fails the run ends with status
\* 500 and saved = k-1, and the table holds the k-1 items stored before
\* plus the old items the cleanup did not delete.
C6_InsertFailureStopsRun ==
    \A p \in Slots :
        InsertFailed(p) =>
            /\ Finished(p)
            /\ response[p].statusCode = 500
            /\ result[p].saved = idx[p] - 1
            /\ Len(inserted[p]) = idx[p] - 1
            /\ table = {it \in startTable[p] : it["id"] \notin DeletedKeys(log[p])}
                       \cup Range(inserted[p])

\* C9: nothing in the handler makes one invocation wait for another: a slot
\* that can be invoked can start its fetch, and a slot inside a run can take
\* its next step, whatever the other slot is doing.
C9_NoGuardBetweenRuns ==
    \A p \in Slots :
        /\ (pc[p] = "idle" /\ runs < Cardinality(Slots)) =>
             ENABLED FetchReturns(p, MaxConcBatch, Cardinality(Slots))
        /\ pc[p] \in {"scan", "delete", "insert", "after"} =>
             ENABLED Step(p, MaxConcBatch, Cardinality(Slots))

\* Two runs that both started on the empty table, met no error and returned
\* 200, after which the table is the batch of neither.
C9_Witness ==
    /\ \A p \in Slots :
         /\ response[p].statusCode = 200
         /\ startTable[p] = {}
         /\ result[p].errors = <<>>
         /\ table # Range(inserted[p])
    /\ table = Range(inserted[1]) \cup Range(inserted[2])

\* C10: the sample is the first min(5, saved) items the run stored, in
\* order, the k-th with sequence number k; saved counts the stored items
\* and never exceeds fetched; the returned body carries that result.
C10_SampleIsFirstFiveStored ==
    \A p \in Slots :
        LET r == result[p]
        IN  /\ r.saved = Len(inserted[p])
            /\ r.saved <= r.fetched
            /\ r.sample_saved = SubSeq(inserted[p], 1, Min(5, r.saved))
            /\ \A k \in 1..Len(r.sample_saved) :
                 r.sample_saved[k]["numero"] = PyInt(NatToDigits(k))
            /\ pc[p] = "returned" => response[p].body = <<r>>

\* A run that stored six items and returned: the sample stops at five.
C10_Witness ==
    /\ pc[1] = "returned"
    /\ result[1].saved = 6
    /\ Len(result[1].sample_saved) = 5

\* A source of a canonical field: a dict of the feature and a key of it.
Sources(feat, coord, aliases) ==
    (IF coord = "" THEN <<>> ELSE <<[d |-> GeomOf(feat), k |-> coord]>>)
    \o [i \in 1..Len(aliases) |-> [d |-> AttrOf(feat), k |-> aliases[i]]]

\* The value of the first source that is present (a null counting as not
\* present), None when there is none.
RECURSIVE FirstPresent(_)
FirstPresent(srcs) ==
    IF Len(srcs) = 0 THEN None
    ELSE IF srcs[1].k \in DOMAIN srcs[1].d /\ srcs[1].d[srcs[1].k] # None
         THEN srcs[1].d[srcs[1].k]
         ELSE FirstPresent(Tail(srcs))

\* C7: each numeric canonical field is the coercion of the first alias, in
\* precedence order, that the feature carries.
C7_FirstPresentAliasWins ==
    npc \in {"normalized", "cleaned"} =>
        /\ item["magnitud"] = to_decimal_safe(FirstPresent(Sources(raw, "", MagAliases)))
        /\ item["profundidad_km"] = to_decimal_safe(FirstPresent(Sources(raw, "", DepthAliases)))
        /\ item["latitude"] = to_decimal_safe(FirstPresent(Sources(raw, "y", LatAliases)))
        /\ item["longitude"] = to_decimal_safe(FirstPresent(Sources(raw, "x", LonAliases)))

\* The canonical fields: the key of the item and the sources it is read from.
CanonicalFields ==
    {[key |-> "magnitud", srcs |-> Sources(raw, "", MagAliases)],
     [key |-> "profundidad_km", srcs |-> Sources(raw, "", DepthAliases)],
     [key |-> "latitude", srcs |-> Sources(raw, "y", LatAliases)],
     [key |-> "longitude", srcs |-> Sources(raw, "x", LonAliases)],
     [key |-> "referencia_texto", srcs |-> Sources(raw, "", RefAliases)],
     [key |-> "report_id", srcs |-> Sources(raw, "", IdAliases)],
     [key |-> "fecha_raw", srcs |-> Sources(raw, "", <<"fecha", "Fecha">>)]}

\* The feature carries none of the sources.
NoSource(srcs) == \A i \in 1..Len(srcs) : srcs[i].k \notin DOMAIN srcs[i].d

\* C8 as claimed: the normalized item has no key for a canonical field none
\* of whose aliases the feature carries.
C8_NormalizerOmitsAbsentField ==
    npc \in {"normalized", "cleaned"} =>
        \A f \in CanonicalFields : NoSource(f.srcs) => f.key \notin DOMAIN item

\* C8 as amended: for such a field the normalized item carries the key with
\* the value None, and the item cleaned for the table has no such key.
C8_CleanedItemOmitsAbsentField ==
    npc \in {"normalized", "cleaned"} =>
        \A f \in CanonicalFields :
            NoSource(f.srcs) =>
                /\ f.key \in DOMAIN item /\ item[f.key] = None
                /\ npc = "cleaned" => f.key \notin DOMAIN cleaned

\* A cleaned item with a magnitude and, for want of any alias, no depth.
C8_Witness ==
    /\ npc = "cleaned"
    /\ NoSource(Sources(raw, "", DepthAliases))
    /\ "magnitud" \in DOMAIN cleaned
    /\ "profundidad_km" \notin DOMAIN cleaned

====
